---------------------------- MODULE Spec2Model ----------------------------
(***************************************************************************)
(* A model of the docset container library (docset.py, docset_legacy.py,   *)
(* codec.py): the current-format writer and reader, the legacy writer and  *)
(* reader, the DocSet factory and ConcatDocSet.                            *)
(*                                                                         *)
(* Files are sequences of bytes (0..255).  Offsets are 0-based as in the   *)
(* code; byte k of a file is element k+1 of its sequence.                  *)
(***************************************************************************)
EXTENDS Integers, Sequences, FiniteSets, TLC

(***************************************************************************)
(* Fixed-width integers.                                                   *)
(*                                                                         *)
(* TLC's integers are 32 bits wide, so the range of a '<Q' word is held    *)
(* through an order-preserving map: values below U64_BIG are themselves,   *)
(* every value from U64_BIG to 2^64-2 is U64_BIG, and the all-ones word    *)
(* 0xFFFFFFFFFFFFFFFF is NONE_VALUE.  The code only compares such words    *)
(* (==, >) and adds small multiples of 8 to offsets that lie in a file, so *)
(* the map keeps every outcome.                                            *)
(***************************************************************************)
NONE_VALUE == 2147483647

UNLOAD_VALUE == 2147483647

U64_BIG == 2147483646

Min(a, b) == IF a <= b THEN a ELSE b

Byte(n, k) == (n \div (IF k = 0 THEN 1 ELSE IF k = 1 THEN 256 ELSE IF k = 2 THEN 65536 ELSE 16777216)) % 256

\* struct.Struct('<Q').pack(n)
UINT64_pack(n) ==
    IF n = NONE_VALUE
    THEN <<255, 255, 255, 255, 255, 255, 255, 255>>
    ELSE <<Byte(n, 0), Byte(n, 1), Byte(n, 2), Byte(n, 3), 0, 0, 0, 0>>

\* struct.Struct('<Q').unpack(b)[0]; b must hold exactly 8 bytes (the caller
\* raises struct.error otherwise)
UINT64_unpack(b) ==
    IF \A k \in 1..8 : b[k] = 255 THEN NONE_VALUE
    ELSE IF b[5] # 0 \/ b[6] # 0 \/ b[7] # 0 \/ b[8] # 0 \/ b[4] >= 127 THEN U64_BIG
    ELSE b[1] + 256 * b[2] + 65536 * b[3] + 16777216 * b[4]

\* little-endian int32 as BSON writes lengths and small integers
Int32_pack(n) == <<Byte(n, 0), Byte(n, 1), Byte(n, 2), Byte(n, 3)>>

\* -1 stands for every value outside 0 .. 127 * 2^24 - 1 (negative or too large
\* for any buffer of the model)
Int32_unpack(b) ==
    IF b[4] >= 127 THEN -1
    ELSE b[1] + 256 * b[2] + 65536 * b[3] + 16777216 * b[4]

(***************************************************************************)
(* Documents and the document codec (codec.encode_doc / codec.decode_doc,  *)
(* which call the BSON library).  A document is a sequence of elements     *)
(* [k, t, v] in insertion order with distinct keys: k the key's bytes,     *)
(* t the value's type, v its payload as a sequence of integers:            *)
(*   "int"  : <<n>>, a 32-bit integer   (BSON type 0x10)                   *)
(*   "null" : <<>>,  None               (BSON type 0x0A)                   *)
(*   "bin"  : the bytes                 (BSON type 0x05, subtype 0)        *)
(***************************************************************************)
Elem(k, t, v) == [k |-> k, t |-> t, v |-> v]

IntV(k, n) == Elem(k, "int", <<n>>)

NullV(k) == Elem(k, "null", <<>>)

BinV(k, b) == Elem(k, "bin", b)

encode_elem(e) ==
    IF e.t = "int" THEN <<16>> \o e.k \o <<0>> \o Int32_pack(e.v[1])
    ELSE IF e.t = "null" THEN <<10>> \o e.k \o <<0>>
    ELSE <<5>> \o e.k \o <<0>> \o Int32_pack(Len(e.v)) \o <<0>> \o e.v

RECURSIVE encode_elems(_)
encode_elems(doc) ==
    IF doc = <<>> THEN <<>>
    ELSE encode_elem(Head(doc)) \o encode_elems(Tail(doc))

\* codec.encode_doc: int32 total length, the elements, a terminating 0x00
encode_doc(doc) ==
    LET body == encode_elems(doc)
    IN  Int32_pack(Len(body) + 5) \o body \o <<0>>

\* the place of the first 0x00 at or after position p (1-based), 0 if none
\* before position last
RECURSIVE FindNul(_, _, _)
FindNul(data, p, last) ==
    IF p > last THEN 0
    ELSE IF data[p] = 0 THEN p
    ELSE FindNul(data, p + 1, last)

InvalidDoc == [ok |-> FALSE, doc |-> <<>>]

\* the elements held in data[p .. last]; InvalidDoc where BSON raises InvalidBSON
RECURSIVE decode_elems(_, _, _, _)
decode_elems(data, p, last, acc) ==
    IF p > last THEN [ok |-> TRUE, doc |-> acc]
    ELSE
        LET ty == data[p]
            z  == FindNul(data, p + 1, last)
            k  == SubSeq(data, p + 1, z - 1)
        IN  IF z = 0 THEN InvalidDoc
            ELSE IF ty = 16 THEN
                IF z + 4 > last THEN InvalidDoc
                ELSE IF Int32_unpack(SubSeq(data, z + 1, z + 4)) < 0 THEN InvalidDoc
                ELSE decode_elems(data, z + 5, last,
                        Append(acc, IntV(k, Int32_unpack(SubSeq(data, z + 1, z + 4)))))
            ELSE IF ty = 10 THEN
                decode_elems(data, z + 1, last, Append(acc, NullV(k)))
            ELSE IF ty = 5 THEN
                IF z + 5 > last THEN InvalidDoc
                ELSE
                    LET n == Int32_unpack(SubSeq(data, z + 1, z + 4))
                    IN  IF n < 0 \/ z + 5 + n > last \/ data[z + 5] # 0 THEN InvalidDoc
                        ELSE decode_elems(data, z + 6 + n, last,
                                Append(acc, BinV(k, SubSeq(data, z + 6, z + 5 + n))))
            ELSE InvalidDoc

\* codec.decode_doc: [ok |-> TRUE, doc] or, where InvalidBSON is raised, InvalidDoc
decode_doc(data) ==
    IF Len(data) < 5 THEN InvalidDoc
    ELSE IF Int32_unpack(SubSeq(data, 1, 4)) # Len(data) THEN InvalidDoc
    ELSE IF data[Len(data)] # 0 THEN InvalidDoc
    ELSE decode_elems(data, 5, Len(data) - 1, <<>>)

(***************************************************************************)
(* Python dictionaries as documents: d[k] = v, {**a, **b}, del d[k].       *)
(***************************************************************************)
HasKey(doc, k) == \E j \in 1..Len(doc) : doc[j].k = k

\* meta_doc[e.k] = e's value that leaves the value of a key already present
DictSet_first_wins(doc, e) ==
    IF HasKey(doc, e.k) THEN doc ELSE Append(doc, e)

\* d[e.k] = e's value: an existing key keeps its place, a new key goes last
DictSet(doc, e) ==
    IF HasKey(doc, e.k)
    THEN [j \in 1..Len(doc) |-> IF doc[j].k = e.k THEN e ELSE doc[j]]
    ELSE Append(doc, e)

\* {**a, **b}
RECURSIVE DictMerge(_, _)
DictMerge(a, b) ==
    IF b = <<>> THEN a ELSE DictMerge(DictSet(a, Head(b)), Tail(b))

\* del d[k] (k is present)
RECURSIVE DictDel(_, _)
DictDel(doc, k) ==
    IF doc = <<>> THEN <<>>
    ELSE IF Head(doc).k = k THEN Tail(doc)
    ELSE <<Head(doc)>> \o DictDel(Tail(doc), k)

\* d[k] (k is present)
DictGet(doc, k) == doc[CHOOSE j \in 1..Len(doc) : doc[j].k = k]

(***************************************************************************)
(* File handles opened for writing (io.open(path, 'wb', buffering=n)).     *)
(* A handle is the fields pos (position of the underlying descriptor),     *)
(* buf (bytes accepted by write() and not yet handed to the operating      *)
(* system) and buffer_size of the record that owns it; disk is what the    *)
(* file holds for any other opener.  buffering = 0 is an unbuffered        *)
(* FileIO; otherwise the handle is a BufferedWriter, which keeps a write   *)
(* that fits in the free part of its buffer, and else flushes the buffer   *)
(* and keeps the write if it fits in the empty buffer or passes it through.*)
(***************************************************************************)
\* the file after data is written at offset pos
RawWrite(disk, pos, data) ==
    SubSeq(disk, 1, pos) \o data \o SubSeq(disk, pos + Len(data) + 1, Len(disk))

\* fp.flush(), also done by fp.seek() and fp.close()
FpFlush(s) ==
    [s EXCEPT !.disk = RawWrite(s.disk, s.w.pos, s.w.buf),
              !.w.pos = s.w.pos + Len(s.w.buf),
              !.w.buf = <<>>]

\* fp.tell()
FpTell(s) == s.w.pos + Len(s.w.buf)

\* fp.write(data)
FpWrite(s, data) ==
    IF s.w.buffer_size = 0 THEN
        [s EXCEPT !.disk = RawWrite(s.disk, s.w.pos, data),
                  !.w.pos = s.w.pos + Len(data)]
    ELSE IF Len(data) <= s.w.buffer_size - Len(s.w.buf) THEN
        [s EXCEPT !.w.buf = s.w.buf \o data]
    ELSE
        LET f == FpFlush(s)
        IN  IF Len(data) > s.w.buffer_size
            THEN [f EXCEPT !.disk = RawWrite(f.disk, f.w.pos, data),
                           !.w.pos = f.w.pos + Len(data)]
            ELSE [f EXCEPT !.w.buf = data]

\* fp.seek(target, io.SEEK_SET)
FpSeek(s, target) == [FpFlush(s) EXCEPT !.w.pos = target]

\* fp.seek(0, io.SEEK_END)
FpSeekEnd(s) == LET f == FpFlush(s) IN [f EXCEPT !.w.pos = Len(f.disk)]

(***************************************************************************)
(* docset.DocSetWriter.  s = [w |-> the writer object, disk |-> the file]. *)
(* w.fp is TRUE while self._fp is a handle and FALSE once it is None.      *)
(* w.pc is the statement of close() that runs next ("idle" outside         *)
(* close()); count, index_start and meta_start are close()'s locals.       *)
(***************************************************************************)
\* b'DOCSET71'
TYPE_STR == <<68, 79, 67, 83, 69, 84, 55, 49>>

STRUCT_HEADER_size == 32

UINT64_size == 8

\* STRUCT_HEADER.pack(type_str, count, index_start, meta_start)
STRUCT_HEADER_pack(type_str, count, index_start, meta_start) ==
    type_str \o UINT64_pack(count) \o UINT64_pack(index_start) \o UINT64_pack(meta_start)

\* DocSetWriter.__init__
Writer_init(buffer_size) ==
    LET s0 == [w |-> [cls |-> "current", fp |-> TRUE, index |-> <<>>, meta_doc |-> <<>>,
                      buffer_size |-> buffer_size, head_size |-> 0, index_pos |-> -1,
                      pos |-> 0, buf |-> <<>>, pc |-> "idle",
                      count |-> 0, index_start |-> 0, meta_start |-> 0],
               disk |-> <<>>]
    IN  FpWrite(s0, STRUCT_HEADER_pack(TYPE_STR, 0, NONE_VALUE, NONE_VALUE))

\* a writer that records the position after the record instead of before it
Writer_write_late(s, doc) ==
    LET doc_data == encode_doc(doc)
        s1       == FpWrite(s, UINT64_pack(Len(doc_data)))
        s2       == FpWrite(s1, doc_data)
    IN  [s2 EXCEPT !.w.index = Append(s.w.index, FpTell(s2))]

\* DocSetWriter.write, past its assertion
Writer_write(s, doc) ==
    LET pos      == FpTell(s)
        doc_data == encode_doc(doc)
        s1       == FpWrite(s, UINT64_pack(Len(doc_data)))
        s2       == FpWrite(s1, doc_data)
    IN  [s2 EXCEPT !.w.index = Append(s.w.index, pos)]

\* an index region written last offset first
RECURSIVE WriteOffsets_reversed(_, _)
WriteOffsets_reversed(s, index) ==
    IF index = <<>> THEN s
    ELSE WriteOffsets_reversed(FpWrite(s, UINT64_pack(index[Len(index)])),
                               SubSeq(index, 1, Len(index) - 1))

\* for pos in self._index: self._fp.write(UINT64.pack(pos))
RECURSIVE WriteOffsets(_, _)
WriteOffsets(s, index) ==
    IF index = <<>> THEN s
    ELSE WriteOffsets(FpWrite(s, UINT64_pack(Head(index))), Tail(index))

\* close(), first part: count = len(self._index); index_start = self._write_index()
Writer_write_index(s) ==
    LET s1 == WriteOffsets(s, s.w.index)
    IN  [s1 EXCEPT !.w.count = Len(s.w.index),
                   !.w.index_start = FpTell(s),
                   !.w.pc = "meta"]

\* close(), second part: meta_start = self._write_meta_doc()
Writer_write_meta_doc(s) ==
    LET doc_data == encode_doc(s.w.meta_doc)
        s1       == FpWrite(s, UINT64_pack(Len(doc_data)))
        s2       == FpWrite(s1, doc_data)
    IN  [s2 EXCEPT !.w.meta_start = FpTell(s), !.w.pc = "header"]

\* a header rewrite that packs the two offsets in the other order
Writer_write_header_swapped(s) ==
    LET s1 == FpSeek(s, 0)
        s2 == FpWrite(s1, STRUCT_HEADER_pack(TYPE_STR, s.w.count, s.w.meta_start, s.w.index_start))
    IN  [s2 EXCEPT !.w.pc = "fpclose"]

\* close(), third part: seek(0) and the final header
Writer_write_header(s) ==
    LET s1 == FpSeek(s, 0)
        s2 == FpWrite(s1, STRUCT_HEADER_pack(TYPE_STR, s.w.count, s.w.index_start, s.w.meta_start))
    IN  [s2 EXCEPT !.w.pc = "fpclose"]

\* close()'s last part without self._fp = None
Writer_fp_close_keep(s) ==
    LET s1 == FpFlush(s)
    IN  [s1 EXCEPT !.w.pc = "idle"]

\* close(), last part: self._fp.close(); self._fp = None
Writer_fp_close(s) ==
    LET s1 == FpFlush(s)
    IN  [s1 EXCEPT !.w.fp = FALSE, !.w.pc = "idle"]

\* the whole of close() on an open writer
Writer_close(s) ==
    Writer_fp_close(Writer_write_header(Writer_write_meta_doc(Writer_write_index(s))))

(***************************************************************************)
(* docset_legacy.DocSetWriter.  Same record as the current writer;         *)
(* index_pos = -1 is self._index_pos = None.  Its handle is opened with    *)
(* the default buffering of io.open.                                       *)
(***************************************************************************)
MIN_HEAD_SIZE == 512

MAX_HEAD_SIZE == 16777216

\* io.DEFAULT_BUFFER_SIZE, the buffering of io.open(path, 'wb')
IO_DEFAULT_BUFFER_SIZE == 8192

\* '__HDS__', '__CNT__', '__IDX__'
K_HDS == <<95, 95, 72, 68, 83, 95, 95>>

K_CNT == <<95, 95, 67, 78, 84, 95, 95>>

K_IDX == <<95, 95, 73, 68, 88, 95, 95>>

Zeros(n) == [j \in 1..n |-> 0]

\* basic_doc of _write_head
LegacyWriter_basic_doc(w) ==
    <<IntV(K_HDS, w.head_size),
      IntV(K_CNT, Len(w.index)),
      IF w.index_pos = -1 THEN NullV(K_IDX) ELSE IntV(K_IDX, w.index_pos)>>

\* _write_head's head document without the retry on the reserved keys alone
LegacyWriter_head_data_no_retry(w) ==
    encode_doc(DictMerge(LegacyWriter_basic_doc(w), w.meta_doc))

\* the encoded head document _write_head settles on: with the user's
\* metadata if that fits in head_size, else the reserved keys alone
LegacyWriter_head_data(w) ==
    LET basic_doc == LegacyWriter_basic_doc(w)
        doc_data  == encode_doc(DictMerge(basic_doc, w.meta_doc))
    IN  IF w.head_size - (UINT64_size + Len(doc_data)) < 0
        THEN encode_doc(basic_doc)
        ELSE doc_data

\* a head written without its zero padding
LegacyWriter_write_head_unpadded(s) ==
    LET doc_data == LegacyWriter_head_data(s.w)
        s1 == FpSeek(s, 0)
        s2 == FpWrite(s1, UINT64_pack(Len(doc_data)))
        s3 == FpWrite(s2, doc_data)
    IN  FpSeekEnd(s3)

\* DocSetWriter._write_head
LegacyWriter_write_head(s) ==
    LET doc_data == LegacyWriter_head_data(s.w)
        pad_size == s.w.head_size - (UINT64_size + Len(doc_data))
        s1 == FpSeek(s, 0)
        s2 == FpWrite(s1, UINT64_pack(Len(doc_data)))
        s3 == FpWrite(s2, doc_data)
        s4 == IF pad_size > 0 THEN FpWrite(s3, Zeros(pad_size)) ELSE s3
    IN  FpSeekEnd(s4)

\* DocSetWriter.__init__ (head_size >= MIN_HEAD_SIZE is asserted)
LegacyWriter_init(head_size) ==
    LegacyWriter_write_head(
        [w |-> [cls |-> "legacy", fp |-> TRUE, index |-> <<>>, meta_doc |-> <<>>,
                buffer_size |-> IO_DEFAULT_BUFFER_SIZE, head_size |-> head_size,
                index_pos |-> -1, pos |-> 0, buf |-> <<>>, pc |-> "idle",
                count |-> 0, index_start |-> 0, meta_start |-> 0],
         disk |-> <<>>])

\* DocSetWriter.write, past its assertion
LegacyWriter_write(s, doc) ==
    LET pos      == FpTell(s)
        doc_data == encode_doc(doc)
        s1       == FpWrite(s, UINT64_pack(Len(doc_data)))
        s2       == FpWrite(s1, doc_data)
    IN  [s2 EXCEPT !.w.index = Append(s.w.index, pos)]

\* close(), first part: self._write_index()
LegacyWriter_write_index(s) ==
    LET s1 == WriteOffsets(s, s.w.index)
    IN  [s1 EXCEPT !.w.index_pos = FpTell(s), !.w.pc = "header"]

\* close(), second part: self._write_head()
LegacyWriter_close_head(s) ==
    [LegacyWriter_write_head(s) EXCEPT !.w.pc = "fpclose"]

\* close(), last part: self._fp.close(); self._fp = None
LegacyWriter_fp_close(s) ==
    LET s1 == FpFlush(s)
    IN  [s1 EXCEPT !.w.fp = FALSE, !.w.pc = "idle"]

\* the whole of close() on an open writer
LegacyWriter_close(s) ==
    LegacyWriter_fp_close(LegacyWriter_close_head(LegacyWriter_write_index(s)))

(***************************************************************************)
(* File handles opened for reading.  A reader's fp is the number of an     *)
(* open file description (0: self._fp is None); ofd[h] is the file         *)
(* position of description h.  A handle a process opens itself is numbered *)
(* by the process; after a fork the child's copy of the reader holds the   *)
(* parent's number, i.e. both share one description and one position.      *)
(* Reads are modelled at the level of that position (as for buffering=0,   *)
(* or for data that is not in the handle's read-ahead buffer).             *)
(***************************************************************************)
\* fp.read(n) at position off: the bytes, fewer than n at the end of the file
HRead(disk, off, n) ==
    IF off >= Len(disk) THEN <<>>
    ELSE IF n >= Len(disk) - off THEN SubSeq(disk, off + 1, Len(disk))
    ELSE SubSeq(disk, off + 1, off + n)

NoRet == [err |-> "no call", doc |-> <<>>]

Raise(e) == [err |-> e, doc |-> <<>>]

Return(doc) == [err |-> "", doc |-> doc]

\* a reader object and the frame of its read(): pc is the step of read() that
\* runs next ("idle" outside read()), i / i_left / i_right / pos / size its locals
NoReader ==
    [cls |-> "none", fp |-> 0, pid |-> 0, block_size |-> 0, index |-> <<>>,
     index_start |-> 0, index_count |-> 0, meta_doc |-> <<>>, head_size |-> 0,
     pc |-> "idle", i |-> 0, i_left |-> 0, i_right |-> 0, pos |-> 0, size |-> 0,
     ret |-> NoRet]

\* np.full((count,), NONE_VALUE, dtype='<u8')
Full(count, value) == [j \in 1..count |-> value]

RuntimeErrors ==
    {"RuntimeError: Invalid DocSet file.", "RuntimeError: Incomplete DocSet.",
     "RuntimeError: Invalid metadata.", "RuntimeError: Corrupted meta document."}

(***************************************************************************)
(* docset.DocSetReader.__init__ in process me on the file disk:            *)
(* [err, r, off]: the exception raised ("" if none), the reader built and  *)
(* the position its handle is left at.                                     *)
(***************************************************************************)
Reader_init(disk, me, block_size) ==
    LET hdr == HRead(disk, 0, STRUCT_HEADER_size)
        failed(e) == [err |-> e, r |-> NoReader, off |-> 0]
    IN  IF Len(hdr) < STRUCT_HEADER_size THEN failed("struct.error")
        ELSE
        LET type_str    == SubSeq(hdr, 1, 8)
            count       == UINT64_unpack(SubSeq(hdr, 9, 16))
            index_start == UINT64_unpack(SubSeq(hdr, 17, 24))
            meta_start  == UINT64_unpack(SubSeq(hdr, 25, 32))
        IN  IF type_str # TYPE_STR THEN failed("RuntimeError: Invalid DocSet file.")
            ELSE IF index_start = NONE_VALUE \/ meta_start = NONE_VALUE
            THEN failed("RuntimeError: Incomplete DocSet.")
            ELSE
            LET szb == HRead(disk, meta_start, UINT64_size)
            IN  IF Len(szb) < UINT64_size THEN failed("struct.error")
                ELSE
                LET doc_data_size == UINT64_unpack(szb)
                    doc_data == HRead(disk, meta_start + UINT64_size, doc_data_size)
                    dec == decode_doc(doc_data)
                IN  IF ~dec.ok THEN failed("RuntimeError: Invalid metadata.")
                    ELSE [err |-> "",
                          r |-> [NoReader EXCEPT !.cls = "current", !.fp = me, !.pid = me,
                                     !.block_size = block_size,
                                     !.index = Full(count, NONE_VALUE),
                                     !.index_start = index_start, !.index_count = count,
                                     !.meta_doc = dec.doc],
                          off |-> meta_start + UINT64_size + Len(doc_data)]

(***************************************************************************)
(* docset_legacy.DocSetReader.__init__: [err, r].  The head is read        *)
(* through a handle of its own that is closed again; self._fp stays None.  *)
(***************************************************************************)
\* a test of the length prefix against MAX_HEAD_SIZE alone
LegacyReader_size_bad_max_only(doc_data_size, disk) ==
    doc_data_size > MAX_HEAD_SIZE

\* doc_data_size > MAX_HEAD_SIZE or doc_data_size > os.path.getsize(path)
LegacyReader_size_bad(doc_data_size, disk) ==
    doc_data_size > MAX_HEAD_SIZE \/ doc_data_size > Len(disk)

\* head_read: how many bytes fp.read(doc_data_size) was given
LegacyReader_init(disk, block_size) ==
    LET szb == HRead(disk, 0, UINT64_size)
        failed(e, n) == [err |-> e, r |-> NoReader, off |-> 0, head_read |-> n]
    IN  IF Len(szb) < UINT64_size THEN failed("struct.error", 0)
        ELSE
        LET doc_data_size == UINT64_unpack(szb)
        IN  IF LegacyReader_size_bad(doc_data_size, disk)
            THEN failed("RuntimeError: Invalid DocSet file.", 0)
            ELSE
            LET doc_data == HRead(disk, UINT64_size, doc_data_size)
                dec == decode_doc(doc_data)
                n == Len(doc_data)
            IN  IF ~dec.ok THEN failed("RuntimeError: Invalid DocSet file.", n)
                ELSE IF ~(HasKey(dec.doc, K_HDS) /\ HasKey(dec.doc, K_CNT) /\ HasKey(dec.doc, K_IDX))
                THEN failed("RuntimeError: Corrupted meta document.", n)
                ELSE IF DictGet(dec.doc, K_CNT).t # "int" THEN failed("TypeError", n)
                ELSE
                LET idx == DictGet(dec.doc, K_IDX)
                IN  [err |-> "",
                     r |-> [NoReader EXCEPT !.cls = "legacy", !.fp = 0,
                                !.block_size = block_size,
                                !.head_size = IF DictGet(dec.doc, K_HDS).t = "int" THEN DictGet(dec.doc, K_HDS).v[1] ELSE 0,
                                !.index_count = DictGet(dec.doc, K_CNT).v[1],
                                !.index_start = IF idx.t = "int" THEN idx.v[1] ELSE -1,
                                !.index = Full(DictGet(dec.doc, K_CNT).v[1], UNLOAD_VALUE),
                                !.meta_doc = DictDel(DictDel(DictDel(dec.doc, K_HDS), K_CNT), K_IDX)],
                     off |-> 0, head_read |-> n]

\* a factory that does not fall back to the legacy reader
DocSet_r_current_only(disk, me, block_size) ==
    LET cur == Reader_init(disk, me, block_size)
    IN  [err |-> cur.err, r |-> cur.r, off |-> cur.off,
         tried_legacy |-> FALSE, first_err |-> cur.err]

(***************************************************************************)
(* The factory DocSet(path, 'r', block_size=...): the current-format       *)
(* reader first, the legacy reader when that raises a RuntimeError.        *)
(* [err, r, off, tried_legacy, first_err].                                 *)
(***************************************************************************)
DocSet_r(disk, me, block_size) ==
    LET cur == Reader_init(disk, me, block_size)
    IN  IF cur.err \in RuntimeErrors
        THEN LET leg == LegacyReader_init(disk, block_size)
             IN  [err |-> leg.err, r |-> leg.r, off |-> 0,
                  tried_legacy |-> TRUE, first_err |-> cur.err]
        ELSE [err |-> cur.err, r |-> cur.r, off |-> cur.off,
              tried_legacy |-> FALSE, first_err |-> cur.err]

(***************************************************************************)
(* read(i) of both readers, statement by statement.  v = [r, ofd]: the     *)
(* calling process's reader object and the positions of all open file      *)
(* descriptions.  Each step returns the new v.                             *)
(***************************************************************************)
\* read() is left: its locals die (i is kept as the argument of the last call)
Leave(v, ret) ==
    [v EXCEPT !.r.pc = "idle", !.r.ret = ret, !.r.pos = 0, !.r.size = 0,
              !.r.i_left = 0, !.r.i_right = 0]

Fail(v, e) == Leave(v, Raise(e))

\* a lookup that seeks to entry i of the index region instead of entry i_left
Read_lookup_unaligned(v, i) ==
    LET r == v.r
        pos == r.index[i + 1]
        i_left == (i \div r.block_size) * r.block_size
        i_right == Min(i_left + r.block_size, r.index_count)
    IN  IF pos = NONE_VALUE
        THEN [v EXCEPT !.r.i = i, !.r.pos = pos, !.r.i_left = i_left, !.r.i_right = i_right,
                       !.r.pc = "load", !.r.ret = NoRet,
                       !.ofd[r.fp] = r.index_start + UINT64_size * i]
        ELSE [v EXCEPT !.r.i = i, !.r.pos = pos, !.r.pc = "seek", !.r.ret = NoRet]

\* pos = self._index[i]; if pos == NONE_VALUE: i_left, i_right and the seek
\* to the block's place in the index region
Read_lookup(v, i) ==
    LET r == v.r
        pos == r.index[i + 1]
        i_left == (i \div r.block_size) * r.block_size
        i_right == Min(i_left + r.block_size, r.index_count)
    IN  IF pos = NONE_VALUE
        THEN [v EXCEPT !.r.i = i, !.r.pos = pos, !.r.i_left = i_left, !.r.i_right = i_right,
                       !.r.pc = "load", !.r.ret = NoRet,
                       !.ofd[r.fp] = r.index_start + UINT64_size * i_left]
        ELSE [v EXCEPT !.r.i = i, !.r.pos = pos, !.r.pc = "seek", !.r.ret = NoRet]

\* a read() without the process check
Reader_read_begin_shared(v, me, i) ==
    IF v.r.fp = 0 THEN Fail([v EXCEPT !.r.i = i], "AttributeError")
    ELSE Read_lookup(v, i)

\* docset.DocSetReader.read, first statements: the process check, then the lookup
Reader_read_begin(v, me, i) ==
    IF v.r.fp = 0 THEN Fail([v EXCEPT !.r.i = i], "AttributeError")
    ELSE IF me # v.r.pid
    THEN Read_lookup([v EXCEPT !.r.fp = me, !.r.pid = me, !.ofd[me] = 0], i)
    ELSE Read_lookup(v, i)

\* docset_legacy.DocSetReader.read, first statements: open the handle if there
\* is none, then the lookup
LegacyReader_read_begin(v, me, i) ==
    IF v.r.fp = 0
    THEN Read_lookup([v EXCEPT !.r.fp = me, !.ofd[me] = 0], i)
    ELSE Read_lookup(v, i)

\* for j in range(i_left, i_right): self._index[j] = UINT64.unpack(self._fp.read(8))[0]
RECURSIVE Read_load_loop(_, _, _)
Read_load_loop(v, disk, j) ==
    IF j >= v.r.i_right THEN [v EXCEPT !.r.pos = v.r.index[v.r.i + 1], !.r.pc = "seek"]
    ELSE
        LET b == HRead(disk, v.ofd[v.r.fp], UINT64_size)
            v1 == [v EXCEPT !.ofd[v.r.fp] = v.ofd[v.r.fp] + Len(b)]
        IN  IF Len(b) < UINT64_size THEN Fail(v1, "struct.error")
            ELSE Read_load_loop([v1 EXCEPT !.r.index[j + 1] = UINT64_unpack(b)], disk, j + 1)

\* an index load that starts at i instead of at the start of i's block
Read_load_from_i(v, disk) ==
    Read_load_loop([v EXCEPT !.ofd[v.r.fp] = v.r.index_start + UINT64_size * v.r.i], disk, v.r.i)

Read_load(v, disk) == Read_load_loop(v, disk, v.r.i_left)

\* self._fp.seek(pos, io.SEEK_SET)
Read_seek(v) == [v EXCEPT !.ofd[v.r.fp] = v.r.pos, !.r.pc = "len"]

\* doc_data_size = UINT64.unpack(self._fp.read(UINT64.size))[0]
Read_len(v, disk) ==
    LET b == HRead(disk, v.ofd[v.r.fp], UINT64_size)
        v1 == [v EXCEPT !.ofd[v.r.fp] = v.ofd[v.r.fp] + Len(b)]
    IN  IF Len(b) < UINT64_size THEN Fail(v1, "struct.error")
        ELSE [v1 EXCEPT !.r.size = UINT64_unpack(b), !.r.pc = "body"]

\* doc_data = self._fp.read(doc_data_size); return codec.decode_doc(doc_data)
Read_body(v, disk) ==
    LET data == HRead(disk, v.ofd[v.r.fp], v.r.size)
        v1 == [v EXCEPT !.ofd[v.r.fp] = v.ofd[v.r.fp] + Len(data)]
        dec == decode_doc(data)
    IN  IF ~dec.ok THEN Fail(v1, "InvalidBSON")
        ELSE Leave(v1, Return(dec.doc))

\* the step of read() that v.r.pc names
Read_step(v, disk) ==
    IF v.r.pc = "load" THEN Read_load(v, disk)
    ELSE IF v.r.pc = "seek" THEN Read_seek(v)
    ELSE IF v.r.pc = "len" THEN Read_len(v, disk)
    ELSE Read_body(v, disk)

\* read() from its current step to its return
RECURSIVE Read_run(_, _)
Read_run(v, disk) ==
    IF v.r.pc = "idle" THEN v ELSE Read_run(Read_step(v, disk), disk)

\* the first statements of read(i), by the reader's class
Read_begin(v, me, i) ==
    IF v.r.cls = "current" THEN Reader_read_begin(v, me, i)
    ELSE LegacyReader_read_begin(v, me, i)

\* a whole call read(i) by process me
Read_call(v, disk, me, i) == Read_run(Read_begin(v, me, i), disk)

\* close() of both readers
Reader_close(r) == IF r.fp # 0 THEN [r EXCEPT !.fp = 0] ELSE r

(***************************************************************************)
(* The calls as a caller makes them.                                       *)
(***************************************************************************)
\* write() without its assertion
Writer_write_call_unchecked(s, doc) ==
    IF s.w.cls = "current" THEN [s |-> Writer_write(s, doc), err |-> ""]
    ELSE [s |-> LegacyWriter_write(s, doc), err |-> ""]

\* write(doc) of either writer: assert self._fp is not None, then the body
Writer_write_call(s, doc) ==
    IF ~s.w.fp THEN [s |-> s, err |-> "AssertionError"]
    ELSE IF s.w.cls = "current" THEN [s |-> Writer_write(s, doc), err |-> ""]
    ELSE [s |-> LegacyWriter_write(s, doc), err |-> ""]

\* close() without its test of self._fp
Writer_close_call_unguarded(s) ==
    IF s.w.cls = "current" THEN Writer_close(s) ELSE LegacyWriter_close(s)

\* close() of either writer: if self._fp is not None: ...
Writer_close_call(s) ==
    IF ~s.w.fp THEN s
    ELSE IF s.w.cls = "current" THEN Writer_close(s)
    ELSE LegacyWriter_close(s)

(***************************************************************************)
(* Bounds and inputs.                                                      *)
(***************************************************************************)
\* most documents written to one container
MaxDocs == 2

\* largest block_size a reader is opened with
MaxBlock == 2

\* size of the large metadata value (too large for a 512-byte legacy head)
BigBlob == 480

DEFAULT_WRITE_BUFFER_SIZE == 8388608

\* {} and {'a': 1, 'b': b'\x07\x07\x07', 'n': None}
DocA == <<>>

DocB == <<IntV(<<97>>, 1), BinV(<<98>>, <<7, 7, 7>>), NullV(<<110>>)>>

Docs == {DocA, DocB}

\* buffer_size of the current-format writer: unbuffered, small, the default
BufferSizes == {0, 40, DEFAULT_WRITE_BUFFER_SIZE}

HeadSizes == {MIN_HEAD_SIZE}

BlockSizes == 1..MaxBlock

\* most readers of one ConcatDocSet, and the largest of them
MaxReaders == 3

MaxSize == 2

\* the part of the metadata document that storage damage reaches
MaxCorruptAt == 6
\* how far past either end of a ConcatDocSet an index goes
MaxPast == 2

\* the close sequence is not begun more often than this
MaxCloses == 2

\* most input containers given to merge_ds
MaxInputs == 3

DEFAULT_BLOCK_SIZE == 512

\* assignments meta_doc[k] = v: 'm' = 1, 'm' = 2, 'z' = a large binary value
MetaElems == {IntV(<<109>>, 1), IntV(<<109>>, 2), BinV(<<122>>, Zeros(BigBlob))}

\* processes: the one that opened the reader and the child it may fork
Parent == 1

Child == 2

Procs == {Parent, Child}

(***************************************************************************)
(* State.                                                                  *)
(***************************************************************************)
VARIABLES
    w,        \* the writer object with its handle
    disk,     \* the bytes the file holds on storage
    w_op,     \* the writer's last call and the exception it raised
    written,  \* the documents write() accepted, in order
    assigned, \* for every key assigned through meta_doc, the last assignment
    closes,   \* how many times the statements of close() past its test began
    rd,       \* rd[p]: process p's reader object
    ofd,      \* ofd[h]: position of open file description h
    fac,      \* the last call that opened a reader and how it ended
    forked,   \* whether the child process exists
    cat,      \* the ConcatDocSet and its last call
    mg        \* a run of merge_ds: its arguments, its place, its readers

vars == <<w, disk, w_op, written, assigned, closes, rd, ofd, fac, forked, cat, mg>>

NoFac == [call |-> "none", err |-> "", tried_legacy |-> FALSE, first_err |-> ""]

\* called: whether the last read(i) reached self.ds_list[ds_idx][sample_idx]
\* with a reader of the list, that is, called a reader's read
NoCat ==
    [sizes |-> <<>>, cum_sizes |-> <<>>, i |-> 0, err |-> "no call",
     ds_idx |-> 0, sample_idx |-> 0, called |-> FALSE]

\* inputs: the containers named by args.input[:-1], each by the writer that
\* made it and the documents it holds; out_exists: whether args.input[-1]
\* exists; missing: the place of an input that does not exist, or 0;
\* ds_list: the readers with the positions of their handles; ret: the
\* value returned (-1 before the return)
NoMerge ==
    [inputs |-> <<>>, out_exists |-> FALSE, missing |-> 0, pc |-> "none", i |-> 0,
     ret |-> -1, ds_list |-> <<>>]

WriterInits ==
    {Writer_init(b) : b \in BufferSizes} \cup {LegacyWriter_init(h) : h \in HeadSizes}

Init ==
    /\ \E s \in WriterInits : w = s.w /\ disk = s.disk
    /\ w_op = [op |-> "init", err |-> ""]
    /\ written = <<>>
    /\ assigned = {}
    /\ closes = 0
    /\ rd = [p \in Procs |-> NoReader]
    /\ ofd = [h \in Procs |-> 0]
    /\ fac = NoFac
    /\ forked = FALSE
    /\ cat = NoCat
    /\ mg = NoMerge

S == [w |-> w, disk |-> disk]

\* the writer object exists: its finalizer has not run
Alive == w_op.op # "del"

SetS(t) == w' = t.w /\ disk' = t.disk

\* writer.write(doc)
Write(doc) ==
    /\ w.pc = "idle" /\ Alive
    /\ w.fp => Len(w.index) < MaxDocs
    /\ LET c == Writer_write_call(S, doc)
       IN  /\ SetS(c.s)
           /\ w_op' = [op |-> "write", err |-> c.err]
           /\ written' = IF c.err = "" THEN Append(written, doc) ELSE written
    /\ UNCHANGED <<assigned, closes, rd, ofd, fac, forked, cat, mg>>

\* writer.meta_doc[e.k] = e's value, before close()
SetMeta(e) ==
    /\ w.pc = "idle" /\ w.fp /\ Alive
    /\ w' = [w EXCEPT !.meta_doc = DictSet(w.meta_doc, e)]
    /\ w_op' = [op |-> "meta", err |-> ""]
    /\ assigned' = {x \in assigned : x.k # e.k} \cup {e}
    /\ UNCHANGED <<disk, written, closes, rd, ofd, fac, forked, cat, mg>>

\* self.close() on an open writer, up to the end of _write_index(), called
\* as op: "close" by the program, "exit" by __exit__, "del" by __del__
CloseOpen(op) ==
    /\ w.pc = "idle" /\ w.fp /\ Alive
    /\ closes < MaxCloses
    /\ SetS(IF w.cls = "current" THEN Writer_write_index(S) ELSE LegacyWriter_write_index(S))
    /\ w_op' = [op |-> op, err |-> ""]
    /\ closes' = closes + 1
    /\ UNCHANGED <<written, assigned, rd, ofd, fac, forked, cat, mg>>

\* self.close() on a closed writer, called as op
CloseClosed(op) ==
    /\ w.pc = "idle" /\ ~w.fp /\ Alive
    /\ SetS(Writer_close_call(S))
    /\ w_op' = [op |-> op, err |-> ""]
    /\ UNCHANGED <<written, assigned, closes, rd, ofd, fac, forked, cat, mg>>

\* close() on an open writer, up to the end of _write_index()
CloseIndex == CloseOpen("close")

\* the end of a with block: __exit__
Exit == CloseOpen("exit") \/ CloseClosed("exit")

\* the end of the writer's lifetime: __del__
Del == CloseOpen("del") \/ CloseClosed("del")

\* close(): _write_meta_doc() (current format only)
CloseMeta ==
    /\ w.pc = "meta"
    /\ SetS(Writer_write_meta_doc(S))
    /\ UNCHANGED <<w_op, written, assigned, closes, rd, ofd, fac, forked, cat, mg>>

\* close(): the header rewrite (current) or _write_head() (legacy)
CloseHeader ==
    /\ w.pc = "header"
    /\ SetS(IF w.cls = "current" THEN Writer_write_header(S) ELSE LegacyWriter_close_head(S))
    /\ UNCHANGED <<w_op, written, assigned, closes, rd, ofd, fac, forked, cat, mg>>

\* close(): self._fp.close(); self._fp = None
CloseFp ==
    /\ w.pc = "fpclose"
    /\ SetS(IF w.cls = "current" THEN Writer_fp_close(S) ELSE LegacyWriter_fp_close(S))
    /\ UNCHANGED <<w_op, written, assigned, closes, rd, ofd, fac, forked, cat, mg>>

\* close() on a closed writer
CloseAgain == CloseClosed("close again")

\* DocSetReader(path, block_size=b) in the parent process
OpenReader(b) ==
    /\ rd[Parent].cls = "none"
    /\ LET o == Reader_init(disk, Parent, b)
       IN  /\ rd' = [rd EXCEPT ![Parent] = o.r]
           /\ ofd' = IF o.err = "" THEN [ofd EXCEPT ![Parent] = o.off] ELSE ofd
           /\ fac' = [call |-> "DocSetReader", err |-> o.err, tried_legacy |-> FALSE,
                      first_err |-> o.err]
    /\ UNCHANGED <<w, disk, w_op, written, assigned, closes, forked, cat, mg>>

\* DocSet(path, 'r', block_size=b) in the parent process
OpenDocSet(b) ==
    /\ rd[Parent].cls = "none"
    /\ LET o == DocSet_r(disk, Parent, b)
       IN  /\ rd' = [rd EXCEPT ![Parent] = o.r]
           /\ ofd' = IF o.err = "" /\ o.r.fp # 0 THEN [ofd EXCEPT ![Parent] = o.off] ELSE ofd
           /\ fac' = [call |-> "DocSet", err |-> o.err, tried_legacy |-> o.tried_legacy,
                      first_err |-> o.first_err]
    /\ UNCHANGED <<w, disk, w_op, written, assigned, closes, forked, cat, mg>>

\* reader.read(i), 0 <= i < len(reader), as one call
Read(p, i) ==
    /\ rd[p].cls # "none" /\ rd[p].pc = "idle"
    /\ i \in 0..(rd[p].index_count - 1)
    /\ LET v == Read_call([r |-> rd[p], ofd |-> ofd], disk, p, i)
       IN  rd' = [rd EXCEPT ![p] = v.r] /\ ofd' = v.ofd
    /\ UNCHANGED <<w, disk, w_op, written, assigned, closes, fac, forked, cat, mg>>

\* reader.close()
ReaderClose(p) ==
    /\ rd[p].cls # "none" /\ rd[p].pc = "idle"
    /\ rd' = [rd EXCEPT ![p] = Reader_close(rd[p])]
    /\ UNCHANGED <<w, disk, w_op, written, assigned, closes, ofd, fac, forked, cat, mg>>

Next ==
    \/ \E doc \in Docs : Write(doc)
    \/ \E e \in MetaElems : SetMeta(e)
    \/ CloseIndex
    \/ CloseMeta
    \/ CloseHeader
    \/ CloseFp
    \/ CloseAgain
    \/ Exit
    \/ Del
    \/ \E b \in BlockSizes : OpenReader(b)
    \/ \E b \in BlockSizes : OpenDocSet(b)
    \/ \E i \in 0..MaxDocs : Read(Parent, i)
    \/ ReaderClose(Parent)

Spec == Init /\ [][Next]_vars

(***************************************************************************)
(* Properties of the writers, the readers and the factory (Spec).          *)
(***************************************************************************)
\* the writer has run close() to its end
Closed == ~w.fp /\ w.pc = "idle"

\* a view for process p on a reader object r
View(r) == [r |-> r, ofd |-> ofd]

\* what read(i) returns to process p on reader object r
ReadRet(r, p, i) == Read_call(View(r), disk, p, i).r.ret

\* the offsets held by the file's index region, as a fully loaded cache
FullIndex(r) ==
    [j \in 1..r.index_count |->
        UINT64_unpack(HRead(disk, r.index_start + UINT64_size * (j - 1), UINT64_size))]

\* what the parent's reader returned last is the document written at that index
LastReadIsWritten(p) ==
    \/ rd[p].ret.err = "no call"
    \/ rd[p].pc # "idle"
    \/ rd[p].cls = "current" /\ rd[p].fp = 0 /\ rd[p].ret.err = "AttributeError"
    \/ /\ rd[p].i < Len(written)
       /\ rd[p].ret = Return(written[rd[p].i + 1])

\* C1: round trip. After write() of N documents and close() on a
\* current-format writer, a DocSetReader opened on the file has len() = N
\* and read(i) returns the i-th document written, for every block size; and
\* every reader that was opened on the file reports that length and returned
\* the document written at the index it was asked for.
C1_RoundTrip ==
    /\ (w.cls = "current" /\ Closed) =>
          \A b \in BlockSizes :
             LET o == Reader_init(disk, Parent, b)
             IN  /\ o.err = ""
                 /\ Len(o.r.index) = Len(written)
                 /\ \A i \in 0..(Len(written) - 1) :
                       ReadRet(o.r, Parent, i) = Return(written[i + 1])
    /\ rd[Parent].cls = "current" =>
          /\ Len(rd[Parent].index) = Len(written)
          /\ LastReadIsWritten(Parent)

C1_Witness ==
    /\ w.cls = "current" /\ Closed
    /\ Len(written) = MaxDocs /\ written[1] # written[2]
    /\ rd[Parent].cls = "current" /\ rd[Parent].i = 1
    /\ rd[Parent].ret = Return(written[2])

\* the states of a current-format writer before close() rewrites the header
BeforeHeaderRewrite == w.cls = "current" /\ w.fp /\ w.pc \in {"idle", "meta", "header"}

\* C2, as claimed: in every state of the file from the writer's construction
\* up to the header rewrite of close(), the file's header holds the sentinel
\* in both offsets and DocSetReader on the file raises
\* RuntimeError('Incomplete DocSet.').
C2_IncompleteRejected ==
    BeforeHeaderRewrite =>
        /\ Len(disk) >= STRUCT_HEADER_size
        /\ UINT64_unpack(SubSeq(disk, 17, 24)) = NONE_VALUE
        /\ UINT64_unpack(SubSeq(disk, 25, 32)) = NONE_VALUE
        /\ \A b \in BlockSizes :
              Reader_init(disk, Parent, b).err = "RuntimeError: Incomplete DocSet."

\* C3: block-loading equivalence. Whatever reads a reader has served (so
\* whatever part of its index cache is loaded) and whatever its block size,
\* read(i) returns what a reader whose cache holds the whole index region
\* returns, and so did the last read.
C3_BlockLoading ==
    \A p \in {Parent} :
        (rd[p].cls # "none" /\ rd[p].pc = "idle" /\ (rd[p].cls = "current" => rd[p].fp # 0)) =>
            /\ \A i \in 0..(rd[p].index_count - 1) :
                  /\ ReadRet(rd[p], p, i) = ReadRet([rd[p] EXCEPT !.index = FullIndex(rd[p])], p, i)
                  /\ ReadRet(rd[p], p, i).err = ""
            /\ (rd[p].ret.err # "no call" /\ rd[p].ret.err # "AttributeError") =>
                  rd[p].ret = ReadRet([rd[p] EXCEPT !.index = FullIndex(rd[p])], p, rd[p].i)

\* a read served from a cache that is partly loaded, out of write order
C3_Witness ==
    /\ rd[Parent].cls = "legacy" /\ rd[Parent].block_size = 1
    /\ rd[Parent].index_count = MaxDocs
    /\ rd[Parent].index[1] = UNLOAD_VALUE /\ rd[Parent].index[2] # UNLOAD_VALUE
    /\ rd[Parent].i = 1 /\ rd[Parent].ret = Return(written[2])

\* C4: writer state machine. The writer is open from construction until
\* close() has released the handle and closed ever after; write() on a closed
\* writer raises AssertionError and changes neither the file nor the writer's
\* offset list; nothing reopens a closed writer.
C4_WriterStateMachine ==
    /\ [][/\ (w.fp /\ ~w'.fp) => w.pc = "fpclose"
          /\ ~w.fp => (~w'.fp /\ w'.index = w.index /\ disk' = disk /\ written' = written)
          /\ (~w.fp /\ w_op'.op = "write") => (w_op'.err = "AssertionError" /\ w' = w)]_vars
    /\ [](~w.fp => \A doc \in Docs : Writer_write_call(S, doc) = [s |-> S, err |-> "AssertionError"])

C4_Witness == Closed /\ w_op = [op |-> "write", err |-> "AssertionError"] /\ Len(written) = MaxDocs

\* C5: close() is idempotent. close() on a closed writer (current or legacy)
\* changes neither the file nor the writer; close() on a closed reader changes
\* nothing of the reader (index cache and metadata included).
C5_CloseIdempotent ==
    /\ Closed => Writer_close_call(S) = S
    /\ \A p \in Procs : (rd[p].cls # "none" /\ rd[p].fp = 0) => Reader_close(rd[p]) = rd[p]
    /\ \A p \in Procs : rd[p].cls # "none" => Reader_close(Reader_close(rd[p])) = Reader_close(rd[p])

C5_Witness ==
    /\ Closed /\ w_op.op = "close again" /\ Len(written) = MaxDocs
    /\ rd[Parent].cls = "current" /\ rd[Parent].fp = 0 /\ rd[Parent].ret.err = ""
    /\ rd[Parent].index[1] # NONE_VALUE

\* whether the legacy head with the user's metadata fits in head_size
HeadFits ==
    UINT64_size + Len(encode_doc(DictMerge(LegacyWriter_basic_doc(w), w.meta_doc))) <= w.head_size

\* what DocSet(path, 'r') does on a closed writer's file, without the metadata
FallbackBut(meta) ==
    /\ (w.cls = "legacy" /\ Closed) =>
          \A b \in BlockSizes :
             LET o == DocSet_r(disk, Parent, b)
             IN  /\ o.first_err = "RuntimeError: Invalid DocSet file."
                 /\ o.tried_legacy /\ o.err = "" /\ o.r.cls = "legacy"
                 /\ Len(o.r.index) = Len(written)
                 /\ \A i \in 0..(Len(written) - 1) :
                       ReadRet(o.r, Parent, i) = Return(written[i + 1])
                 /\ o.r.meta_doc = meta
    /\ (w.cls = "current" /\ Closed) =>
          \A b \in BlockSizes :
             LET o == DocSet_r(disk, Parent, b)
             IN  o.err = "" /\ ~o.tried_legacy /\ o.r.cls = "current"
    /\ fac.tried_legacy => fac.first_err \in RuntimeErrors

\* C8, as claimed: on a file written and closed by the legacy writer,
\* DocSet(path, 'r') has the current-format reader reject the file and then
\* builds the legacy reader, which has the records and the user metadata that
\* were written; the legacy reader is not tried when the current-format
\* reader accepts the file.
C8_LegacyFallback_Claimed == FallbackBut(w.meta_doc)

\* C8, amended: the same, with the user metadata that was written if the head
\* document holding it fits in head_size, and with empty metadata if not.
C8_LegacyFallback == FallbackBut(IF HeadFits THEN w.meta_doc ELSE <<>>)

C8_Witness ==
    /\ w.cls = "legacy" /\ Closed /\ Len(written) = MaxDocs
    /\ fac.call = "DocSet" /\ fac.tried_legacy /\ fac.err = ""
    /\ rd[Parent].cls = "legacy" /\ rd[Parent].index_count = MaxDocs
    /\ rd[Parent].meta_doc = <<>> /\ w.meta_doc # <<>>
    /\ rd[Parent].ret = Return(written[2])

(***************************************************************************)
(* SpecFork: a reader on a complete container, used by the process that    *)
(* opened it and, after os.fork(), by the child too.  read() runs          *)
(* statement by statement, so the two processes' reads interleave.         *)
(***************************************************************************)
\* write() of each document in turn
RECURSIVE WriteAll(_, _)
WriteAll(s, docs) ==
    IF docs = <<>> THEN s
    ELSE WriteAll(Writer_write_call(s, Head(docs)).s, Tail(docs))

\* the writer and the file after write() of docs, meta_doc.update(meta), close()
FileOf(s0, docs, meta) ==
    LET s1 == WriteAll(s0, docs)
    IN  Writer_close_call([s1 EXCEPT !.w.meta_doc = DictMerge(s1.w.meta_doc, meta)])

\* MaxDocs documents, neighbours different
ForkDocs == [j \in 1..MaxDocs |-> IF j % 2 = 1 THEN DocB ELSE DocA]

InitFork ==
    /\ \E s0 \in {Writer_init(DEFAULT_WRITE_BUFFER_SIZE), LegacyWriter_init(MIN_HEAD_SIZE)} :
       \E b \in BlockSizes :
          LET s == FileOf(s0, ForkDocs, <<>>)
              o == DocSet_r(s.disk, Parent, b)
          IN  /\ w = s.w /\ disk = s.disk
              /\ rd = [p \in Procs |-> IF p = Parent THEN o.r ELSE NoReader]
              /\ ofd = [h \in Procs |-> IF h = Parent THEN o.off ELSE 0]
              /\ fac = [call |-> "DocSet", err |-> o.err, tried_legacy |-> o.tried_legacy,
                        first_err |-> o.first_err]
    /\ w_op = [op |-> "close", err |-> ""]
    /\ written = ForkDocs
    /\ assigned = {}
    /\ closes = 1
    /\ forked = FALSE
    /\ cat = NoCat
    /\ mg = NoMerge

\* os.fork() between two calls of the parent: the child gets a copy of the
\* reader object, and with it the parent's open file description
Fork ==
    /\ ~forked /\ rd[Parent].pc = "idle"
    /\ forked' = TRUE
    /\ rd' = [rd EXCEPT ![Child] = rd[Parent]]
    /\ UNCHANGED <<w, disk, w_op, written, assigned, closes, ofd, fac, cat, mg>>

\* process p calls read(i): the statements up to the first seek
ReadBegin(p, i) ==
    /\ rd[p].cls # "none" /\ rd[p].pc = "idle"
    /\ i \in 0..(rd[p].index_count - 1)
    /\ LET v == Read_begin(View(rd[p]), p, i)
       IN  rd' = [rd EXCEPT ![p] = v.r] /\ ofd' = v.ofd
    /\ UNCHANGED <<w, disk, w_op, written, assigned, closes, fac, forked, cat, mg>>

\* process p runs the next statement of its read()
ReadStep(p) ==
    /\ rd[p].pc # "idle"
    /\ LET v == Read_step(View(rd[p]), disk)
       IN  rd' = [rd EXCEPT ![p] = v.r] /\ ofd' = v.ofd
    /\ UNCHANGED <<w, disk, w_op, written, assigned, closes, fac, forked, cat, mg>>

NextFork ==
    \/ Fork
    \/ \E p \in Procs : \E i \in 0..MaxDocs : ReadBegin(p, i)
    \/ \E p \in Procs : ReadStep(p)

SpecFork == InitFork /\ [][NextFork]_vars

\* C6: fork safety of the current-format reader. A read() by a process other
\* than the one recorded in the reader first gives the reader a newly opened
\* handle of that process and records the process, keeping every loaded entry
\* of the index cache; and every read, in either process and however the two
\* processes' reads interleave, returns the document at its index.
C6_ForkSafeCurrent ==
    /\ [][\A p \in Procs :
            (rd[p].cls = "current" /\ rd[p].pc = "idle" /\ rd'[p].pc # "idle" /\ rd[p].pid # p) =>
                /\ rd'[p].fp = p /\ rd'[p].fp # rd[p].fp
                /\ rd'[p].pid = p
                /\ \A j \in 1..Len(rd[p].index) :
                      rd[p].index[j] # NONE_VALUE => rd'[p].index[j] = rd[p].index[j]]_vars
    /\ [](\A p \in Procs : rd[p].cls = "current" =>
            /\ LastReadIsWritten(p)
            /\ rd[p].pc = "idle" => rd[p].pid = rd[p].fp
            /\ \A j \in 1..Len(rd[p].index) :
                  rd[p].index[j] \in {NONE_VALUE, FullIndex(rd[p])[j]})

\* the child has read through its own handle, with a cache entry loaded by the
\* parent before the fork, while the parent was inside a read
C6_Witness ==
    /\ forked /\ rd[Child].cls = "current"
    /\ rd[Child].fp = Child /\ rd[Child].pid = Child /\ rd[Parent].fp = Parent
    /\ rd[Child].pc = "idle" /\ rd[Child].ret = Return(written[rd[Child].i + 1])
    /\ rd[Parent].pc = "len"
    /\ rd[Parent].i # rd[Child].i

\* C7, as claimed: a legacy reader that served a read in the parent and is
\* used after a fork by the child too returns, from every read and however
\* the reads' statements interleave, the document at the index asked for.
C7_ForkSafeLegacy ==
    \A p \in Procs : (rd[p].cls = "legacy" /\ forked) => LastReadIsWritten(p)

(***************************************************************************)
(* SpecCorrupt: DocSet(path, 'r') on a complete current-format container   *)
(* whose metadata block was damaged on storage: one byte of the encoded    *)
(* metadata document overwritten, or the file cut inside that document.    *)
(***************************************************************************)
\* user metadata of the containers: none, or {'m': 1}
CorruptMetas == {<<>>, <<IntV(<<109>>, 1)>>}

\* every sequence of at most n documents
RECURSIVE DocSeqs(_)
DocSeqs(n) ==
    IF n = 0 THEN {<<>>}
    ELSE DocSeqs(n - 1) \cup {Append(q, d) : q \in {x \in DocSeqs(n - 1) : Len(x) = n - 1}, d \in Docs}

InitCorrupt ==
    /\ \E docs \in DocSeqs(MaxDocs) : \E meta \in CorruptMetas :
          LET s == FileOf(Writer_init(DEFAULT_WRITE_BUFFER_SIZE), docs, meta)
          IN  /\ w = s.w /\ disk = s.disk /\ written = docs
              /\ assigned = {meta[j] : j \in 1..Len(meta)}
    /\ closes = 1
    /\ w_op = [op |-> "close", err |-> ""]
    /\ rd = [p \in Procs |-> NoReader]
    /\ ofd = [h \in Procs |-> 0]
    /\ fac = NoFac
    /\ forked = FALSE
    /\ cat = NoCat
    /\ mg = NoMerge

\* byte k (0-based) of the encoded metadata document becomes b
CorruptByte(k, b) ==
    /\ w_op.op = "close" /\ fac.call = "none"
    /\ w.meta_start + UINT64_size + k < Len(disk)
    /\ disk[w.meta_start + UINT64_size + k + 1] # b
    /\ disk' = [disk EXCEPT ![w.meta_start + UINT64_size + k + 1] = b]
    /\ w_op' = [op |-> "corrupt", err |-> ""]
    /\ UNCHANGED <<w, written, assigned, closes, rd, ofd, fac, forked, cat, mg>>

\* the file loses its last n bytes, all of them bytes of the metadata document
Truncate(n) ==
    /\ w_op.op = "close" /\ fac.call = "none"
    /\ n >= 1 /\ w.meta_start + UINT64_size + n <= Len(disk)
    /\ disk' = SubSeq(disk, 1, Len(disk) - n)
    /\ w_op' = [op |-> "truncate", err |-> ""]
    /\ UNCHANGED <<w, written, assigned, closes, rd, ofd, fac, forked, cat, mg>>

NextCorrupt ==
    \/ \E k \in 0..MaxCorruptAt : \E b \in {0, 16, 255} : CorruptByte(k, b)
    \/ \E n \in 1..MaxCorruptAt : Truncate(n)
    \/ \E b \in BlockSizes : OpenDocSet(b)

SpecCorrupt == InitCorrupt /\ [][NextCorrupt]_vars

\* C9, as claimed: when DocSet(path, 'r') finds the magic tag and resolved
\* offsets in the header but the metadata block does not decode, that error
\* reaches the caller and the legacy reader is not tried.
C9_CorruptMetadataNotRetried ==
    (fac.call = "DocSet" /\ fac.first_err = "RuntimeError: Invalid metadata.") =>
        (~fac.tried_legacy /\ fac.err = "RuntimeError: Invalid metadata.")

(***************************************************************************)
(* docset.ConcatDocSet over readers of given sizes.  A constituent reader  *)
(* is its len(); the document read(i) returns is named by the reader's     *)
(* place in ds_list and the index it was asked for.                        *)
(***************************************************************************)
\* the loop of ConcatDocSet.__init__ : cum_sizes
RECURSIVE CumSizes(_, _)
CumSizes(sizes, cum_size) ==
    IF sizes = <<>> THEN <<>>
    ELSE <<cum_size + Head(sizes)>> \o CumSizes(Tail(sizes), cum_size + Head(sizes))

\* ConcatDocSet.__init__ (ds_list is not empty)
ConcatDocSet_init(sizes) ==
    [NoCat EXCEPT !.sizes = sizes, !.cum_sizes = CumSizes(sizes, 0)]

\* ConcatDocSet.__len__
ConcatDocSet_len(c) == c.cum_sizes[Len(c.cum_sizes)]

\* bisect_left in place of bisect_right
RECURSIVE bisect_left(_, _, _, _)
bisect_left(a, x, lo, hi) ==
    IF lo < hi
    THEN LET mid == (lo + hi) \div 2
         IN  IF a[mid + 1] < x THEN bisect_left(a, x, mid + 1, hi)
             ELSE bisect_left(a, x, lo, mid)
    ELSE lo

\* bisect.bisect_right(a, x) between lo and hi
RECURSIVE bisect_right(_, _, _, _)
bisect_right(a, x, lo, hi) ==
    IF lo < hi
    THEN LET mid == (lo + hi) \div 2
         IN  IF x < a[mid + 1] THEN bisect_right(a, x, lo, mid)
             ELSE bisect_right(a, x, mid + 1, hi)
    ELSE lo

\* ConcatDocSet.read(i) from the bisection on: self.ds_list[ds_idx] raises
\* IndexError when ds_idx is past the list, before any reader is called
ConcatDocSet_dispatch(c, i0, i) ==
    LET ds_idx == bisect_right(c.cum_sizes, i, 0, Len(c.cum_sizes))
        sample_idx == IF ds_idx = 0 THEN i ELSE i - c.cum_sizes[ds_idx]
    IN  IF ds_idx >= Len(c.sizes)
        THEN [c EXCEPT !.i = i0, !.err = "IndexError", !.ds_idx = 0, !.sample_idx = 0,
                       !.called = FALSE]
        ELSE [c EXCEPT !.i = i0, !.err = "", !.ds_idx = ds_idx, !.sample_idx = sample_idx,
                       !.called = TRUE]

\* read(i) without the test of -i against len(self)
ConcatDocSet_read_unchecked(c, i0) ==
    ConcatDocSet_dispatch(c, i0, IF i0 < 0 THEN ConcatDocSet_len(c) + i0 ELSE i0)

\* ConcatDocSet.read(i): the exception raised, or the reader and the index
\* that self.ds_list[ds_idx][sample_idx] reads
ConcatDocSet_read(c, i0) ==
    IF i0 < 0 /\ -i0 > ConcatDocSet_len(c)
    THEN [c EXCEPT !.i = i0, !.err = "ValueError", !.ds_idx = 0, !.sample_idx = 0,
                   !.called = FALSE]
    ELSE ConcatDocSet_dispatch(c, i0, IF i0 < 0 THEN ConcatDocSet_len(c) + i0 ELSE i0)

\* every list of 1..n sizes in 0..MaxSize
RECURSIVE SizeLists(_)
SizeLists(n) ==
    IF n = 0 THEN {<<>>}
    ELSE SizeLists(n - 1) \cup
         {Append(q, z) : q \in {x \in SizeLists(n - 1) : Len(x) = n - 1}, z \in 0..MaxSize}

InitConcat ==
    /\ \E sizes \in SizeLists(MaxReaders) \ {<<>>} : cat = ConcatDocSet_init(sizes)
    /\ mg = NoMerge
    /\ w = Writer_init(0).w /\ disk = Writer_init(0).disk
    /\ w_op = [op |-> "init", err |-> ""]
    /\ written = <<>>
    /\ assigned = {}
    /\ closes = 0
    /\ rd = [p \in Procs |-> NoReader]
    /\ ofd = [h \in Procs |-> 0]
    /\ fac = NoFac
    /\ forked = FALSE

\* view.read(i)
CatRead(i) ==
    /\ cat' = ConcatDocSet_read(cat, i)
    /\ UNCHANGED <<w, disk, w_op, written, assigned, closes, rd, ofd, fac, forked, mg>>

NextConcat ==
    \E i \in (-(MaxReaders * MaxSize) - MaxPast)..(MaxReaders * MaxSize + MaxPast - 1) :
        /\ i \in (-ConcatDocSet_len(cat) - MaxPast)..(ConcatDocSet_len(cat) + MaxPast - 1)
        /\ CatRead(i)

SpecConcat == InitConcat /\ [][NextConcat]_vars

\* the documents of the readers one after the other, each named <<k, j>>:
\* reader k (0-based place in ds_list), index j
RECURSIVE Concatenation(_, _)
Concatenation(sizes, k) ==
    IF sizes = <<>> THEN <<>>
    ELSE [j \in 1..Head(sizes) |-> <<k, j - 1>>] \o Concatenation(Tail(sizes), k + 1)

RECURSIVE SumSizes(_)
SumSizes(sizes) == IF sizes = <<>> THEN 0 ELSE Head(sizes) + SumSizes(Tail(sizes))

\* C10: concatenation mapping. len() is the sum L of the readers' sizes, and
\* for -L <= i < L read(i) raises nothing and reads element i mod L of the
\* concatenation: from the first reader whose cumulative size exceeds
\* p = (i if i >= 0 else L + i), at p less the cumulative size of the reader
\* before it, an index within that reader.
C10_ConcatMapping ==
    LET L == SumSizes(cat.sizes)
        p == IF cat.i >= 0 THEN cat.i ELSE L + cat.i
    IN  /\ ConcatDocSet_len(cat) = L
        /\ (cat.err # "no call" /\ -L <= cat.i /\ cat.i < L) =>
              /\ cat.err = ""
              /\ p = cat.i % L
              /\ <<cat.ds_idx, cat.sample_idx>> = Concatenation(cat.sizes, 0)[p + 1]
              /\ cat.cum_sizes[cat.ds_idx + 1] > p
              /\ \A k \in 1..cat.ds_idx : cat.cum_sizes[k] <= p
              /\ cat.sample_idx = p - (IF cat.ds_idx = 0 THEN 0 ELSE cat.cum_sizes[cat.ds_idx])
              /\ 0 <= cat.sample_idx /\ cat.sample_idx < cat.sizes[cat.ds_idx + 1]

\* a negative index that lands in the last reader, past an empty reader
C10_Witness ==
    /\ Len(cat.sizes) = MaxReaders /\ cat.sizes[1] = MaxSize /\ cat.sizes[2] = 0
    /\ cat.sizes[MaxReaders] >= 1
    /\ cat.i = -1 /\ cat.err = ""
    /\ cat.ds_idx = MaxReaders - 1 /\ cat.sample_idx = cat.sizes[MaxReaders] - 1

\* C11: concatenation range violation. For a ConcatDocSet of length L and an
\* index i >= L or i < -L, read(i) raises a range error (IndexError past the
\* end, ValueError before the start) and calls the read of no reader.
C11_ConcatRange ==
    LET L == SumSizes(cat.sizes)
    IN  (cat.err # "no call" /\ (cat.i >= L \/ cat.i < -L)) =>
            /\ cat.err = (IF cat.i >= L THEN "IndexError" ELSE "ValueError")
            /\ ~cat.called

\* an index two before the start of a view that holds documents
C11_Witness ==
    /\ SumSizes(cat.sizes) >= 2
    /\ cat.i = -SumSizes(cat.sizes) - 2
    /\ cat.err = "ValueError" /\ ~cat.called

\* the keys and values of a metadata document, as a set of assignments
MetaOf(doc) == {doc[j] : j \in 1..Len(doc)}

\* C12: metadata preservation, current format. Whatever assignments were made
\* through meta_doc between open and close(), among the write() calls, a reader
\* opened after close() has a meta_doc that holds, for every key assigned, the
\* last value assigned to it, and no other key.
C12_MetaPreserved ==
    /\ (w.cls = "current" /\ Closed) =>
          LET o == Reader_init(disk, Parent, 1)
          IN  /\ o.err = ""
              /\ MetaOf(o.r.meta_doc) = assigned
              /\ Len(o.r.meta_doc) = Cardinality(assigned)
    /\ rd[Parent].cls = "current" =>
          /\ MetaOf(rd[Parent].meta_doc) = assigned
          /\ Len(rd[Parent].meta_doc) = Cardinality(assigned)

\* 'm' was assigned 1 and then 2, with a write() between, and 'z' as well;
\* the reader opened after close() shows 'm' = 2 and 'z'
C12_Witness ==
    /\ w.cls = "current" /\ Closed /\ Len(written) >= 1
    /\ rd[Parent].cls = "current"
    /\ MetaOf(rd[Parent].meta_doc) = {IntV(<<109>>, 2), BinV(<<122>>, Zeros(BigBlob))}
    /\ rd[Parent].meta_doc[1].k = <<109>>

\* the head document the file starts with, decoded
HeadOnFile ==
    decode_doc(HRead(disk, UINT64_size, UINT64_unpack(HRead(disk, 0, UINT64_size))))

\* C13: legacy metadata fit rule. After close() of a legacy writer (which
\* raises nothing): if the encoded head document with the user metadata plus
\* its 8-byte prefix fits in head_size, the legacy reader's meta_doc is the
\* user metadata; if not, the head on the file holds the three reserved keys
\* alone and the legacy reader opens with empty meta_doc; either way the
\* reader has the record count and every record written.
C13_LegacyMetaFit ==
    (w.cls = "legacy" /\ Closed) =>
        /\ w_op.op \in {"close", "close again"} => w_op.err = ""
        /\ \A b \in BlockSizes :
              LET o == LegacyReader_init(disk, b)
              IN  /\ o.err = ""
                  /\ HeadFits => /\ o.r.meta_doc = w.meta_doc
                                 /\ MetaOf(o.r.meta_doc) = assigned
                  /\ ~HeadFits => /\ o.r.meta_doc = <<>>
                                  /\ HeadOnFile.ok
                                  /\ {e.k : e \in MetaOf(HeadOnFile.doc)} = {K_HDS, K_CNT, K_IDX}
                                  /\ Len(HeadOnFile.doc) = 3
                  /\ o.r.index_count = Len(written)
                  /\ \A i \in 0..(Len(written) - 1) :
                        ReadRet(o.r, Parent, i) = Return(written[i + 1])

\* a closed legacy file whose metadata did not fit, with documents, and
\* a legacy reader opened directly on it
C13_Witness ==
    /\ w.cls = "legacy" /\ Closed /\ ~HeadFits /\ Len(written) = MaxDocs
    /\ Cardinality(assigned) = 2
    /\ LegacyReader_init(disk, 1).err = ""
    /\ LegacyReader_init(disk, 1).r.meta_doc = <<>>

\* where the document stream starts: past the header, or past the legacy head
StreamStart == IF w.cls = "current" THEN STRUCT_HEADER_size ELSE w.head_size

\* the reader DocSet would build on the file, with the whole index region loaded
OnFileIndex ==
    LET o == DocSet_r(disk, Parent, 1)
    IN  [err |-> o.err, index_start |-> o.r.index_start,
         index |-> IF o.err = "" THEN FullIndex(o.r) ELSE <<>>]

StrictlyIncreasing(q) == \A j \in 1..(Len(q) - 1) : q[j] < q[j + 1]

\* C14: monotonic offsets. The writer's offset list is strictly increasing in
\* every state; after close() the index on the file is strictly increasing,
\* and each of its offsets is at or past the end of the header (the head, for
\* the legacy format) and before the start of the index region.
C14_MonotonicOffsets ==
    /\ StrictlyIncreasing(w.index)
    /\ Closed =>
          /\ OnFileIndex.err = ""
          /\ Len(OnFileIndex.index) = Len(written)
          /\ StrictlyIncreasing(OnFileIndex.index)
          /\ \A j \in 1..Len(OnFileIndex.index) :
                /\ StreamStart <= OnFileIndex.index[j]
                /\ OnFileIndex.index[j] < OnFileIndex.index_start

\* a closed current-format container of MaxDocs documents, first offset 32
C14_Witness ==
    /\ w.cls = "current" /\ Closed /\ Len(written) = MaxDocs /\ MaxDocs >= 2
    /\ OnFileIndex.index[1] = STRUCT_HEADER_size
    /\ OnFileIndex.index[1] < OnFileIndex.index[2]

\* the header the file holds (the file has at least 32 bytes)
HeaderOnFile ==
    [type_str    |-> HRead(disk, 0, 8),
     count       |-> UINT64_unpack(HRead(disk, 8, UINT64_size)),
     index_start |-> UINT64_unpack(HRead(disk, 16, UINT64_size)),
     meta_start  |-> UINT64_unpack(HRead(disk, 24, UINT64_size))]

HeaderResolved ==
    /\ Len(disk) >= STRUCT_HEADER_size
    /\ HeaderOnFile.index_start # NONE_VALUE
    /\ HeaderOnFile.meta_start # NONE_VALUE

\* where the document stream of docs ends, when it starts at pos
RECURSIVE StreamEnd(_, _)
StreamEnd(docs, pos) ==
    IF docs = <<>> THEN pos
    ELSE StreamEnd(Tail(docs), pos + UINT64_size + Len(encode_doc(Head(docs))))

\* the bytes of an index region holding the offsets of index
RECURSIVE PackOffsets(_)
PackOffsets(index) ==
    IF index = <<>> THEN <<>> ELSE UINT64_pack(Head(index)) \o PackOffsets(Tail(index))

\* the file as the writer's handle sees it: storage with the buffer applied
Logical(ww, dd) == FpFlush([w |-> ww, disk |-> dd]).disk

\* C15: finalization order and header content (current format). close() on
\* an open writer (1) appends the index region, one offset per record in
\* write order, (2) appends the metadata block, (3) rewrites the 32 bytes at
\* offset 0 and nothing else, (4) releases the handle, in this order. The
\* header on the file is resolved in no state before step 3 has run, and
\* where it is resolved it holds the number of write() calls, the end of the
\* document stream as index offset and index offset + 8 * count as metadata
\* offset, and the file holds the whole index region and metadata block.
C15_FinalizationOrder ==
    /\ [][(w.cls = "current" /\ w' # w) =>
            /\ (w.fp /\ w.pc = "idle" /\ w'.pc # "idle") =>
                  /\ w'.pc = "meta" /\ w'.fp
                  /\ Logical(w', disk') = Logical(w, disk) \o PackOffsets(w.index)
            /\ w.pc = "meta" =>
                  /\ w'.pc = "header" /\ w'.fp
                  /\ Logical(w', disk') =
                        Logical(w, disk) \o UINT64_pack(Len(encode_doc(w.meta_doc)))
                                        \o encode_doc(w.meta_doc)
            /\ w.pc = "header" =>
                  /\ w'.pc = "fpclose" /\ w'.fp
                  /\ Len(Logical(w', disk')) = Len(Logical(w, disk))
                  /\ \A j \in (STRUCT_HEADER_size + 1)..Len(Logical(w, disk)) :
                        Logical(w', disk')[j] = Logical(w, disk)[j]
                  /\ SubSeq(Logical(w', disk'), 1, STRUCT_HEADER_size) =
                        STRUCT_HEADER_pack(TYPE_STR, Len(written), FpTell(S) - UINT64_size
                            - Len(encode_doc(w.meta_doc)) - UINT64_size * Len(written),
                            FpTell(S) - UINT64_size - Len(encode_doc(w.meta_doc)))
            /\ w.pc = "fpclose" =>
                  /\ w'.pc = "idle" /\ ~w'.fp
                  /\ disk' = Logical(w, disk)]_vars
    /\ []((w.cls = "current" /\ HeaderResolved) =>
            /\ w.pc = "fpclose" \/ Closed
            /\ HeaderOnFile.type_str = TYPE_STR
            /\ HeaderOnFile.count = Len(written)
            /\ HeaderOnFile.index_start = StreamEnd(written, STRUCT_HEADER_size)
            /\ HeaderOnFile.meta_start = HeaderOnFile.index_start + UINT64_size * Len(written)
            /\ HRead(disk, HeaderOnFile.index_start, UINT64_size * Len(written)) =
                  PackOffsets(w.index)
            /\ HRead(disk, HeaderOnFile.meta_start, UINT64_size) =
                  UINT64_pack(Len(encode_doc(w.meta_doc)))
            /\ HRead(disk, HeaderOnFile.meta_start + UINT64_size, Len(encode_doc(w.meta_doc))) =
                  encode_doc(w.meta_doc)
            /\ Len(disk) = HeaderOnFile.meta_start + UINT64_size + Len(encode_doc(w.meta_doc)))

\* an unbuffered writer with documents and metadata, between the header
\* rewrite and the release of the handle: the header on the file is resolved
C15_Witness ==
    /\ w.cls = "current" /\ w.fp /\ w.pc = "fpclose" /\ w.buffer_size = 0
    /\ Len(written) = MaxDocs /\ w.meta_doc # <<>>
    /\ HeaderResolved /\ HeaderOnFile.count = MaxDocs

\* the index cache of reader object r after read(i) by process p
CacheAfter(r, p, i) == Read_call(View(r), disk, p, i).r.index

\* a reader that holds a handle, or opens one when it reads
CanRead(r) == r.cls = "legacy" \/ (r.cls = "current" /\ r.fp # 0)

\* C16: index-cache invariant and frame. Every entry of a reader's cache is
\* the sentinel or the offset the writer recorded for that position. With
\* left = floor(i / block_size) * block_size, a read(i), 0 <= i < count, that
\* finds entry i unloaded sets the entries left <= j < min(left + block_size,
\* count) to the writer's offsets and changes no other entry; a read(i) that
\* finds entry i loaded changes no entry.
C16_IndexCacheFrame ==
    \A p \in Procs :
        LET r == rd[p]
        IN  (r.cls # "none" /\ r.pc = "idle") =>
              /\ \A j \in 1..r.index_count :
                    r.index[j] = NONE_VALUE \/ r.index[j] = w.index[j]
              /\ CanRead(r) =>
                    \A i \in 0..(r.index_count - 1) :
                       LET left  == (i \div r.block_size) * r.block_size
                           right == Min(left + r.block_size, r.index_count)
                       IN  IF r.index[i + 1] = NONE_VALUE
                           THEN \A j \in 0..(r.index_count - 1) :
                                   CacheAfter(r, p, i)[j + 1] =
                                      IF left <= j /\ j < right THEN w.index[j + 1]
                                      ELSE r.index[j + 1]
                           ELSE CacheAfter(r, p, i) = r.index

\* after read(1) with block_size 1 the cache holds entry 1 alone, and a
\* read(0) would load entry 0 and leave entry 1
C16_Witness ==
    /\ rd[Parent].cls = "current" /\ rd[Parent].fp # 0 /\ rd[Parent].block_size = 1
    /\ rd[Parent].index_count = MaxDocs /\ rd[Parent].i = 1 /\ rd[Parent].ret.err = ""
    /\ rd[Parent].index[1] = NONE_VALUE /\ rd[Parent].index[2] = w.index[2]
    /\ CacheAfter(rd[Parent], Parent, 0) = w.index

\* C17: finalize on end of lifetime. When __del__ or __exit__ is called on a
\* writer that is still open, it runs the close sequence (index, metadata,
\* header rewrite, release of the handle), and when it returns the writer is
\* closed and the file is a complete container with the records written;
\* whatever mix of close(), __exit__ and __del__ is called, the close
\* sequence begins at most once, and exactly once when the writer is closed.
C17_FinalizeOnce ==
    /\ closes <= 1
    /\ ~w.fp => closes = 1
    /\ w.pc # "idle" => closes = 1
    /\ (w_op.op \in {"exit", "del"} /\ w.pc = "idle") =>
          /\ ~w.fp
          /\ LET o == DocSet_r(disk, Parent, 1)
             IN  /\ o.err = ""
                 /\ o.r.index_count = Len(written)
                 /\ \A i \in 0..(Len(written) - 1) :
                       ReadRet(o.r, Parent, i) = Return(written[i + 1])

\* the finalizer of an open writer with documents, in the middle of the close
\* sequence it runs
C17_Witness ==
    /\ w_op.op = "del" /\ w.fp /\ w.pc = "fpclose" /\ w.cls = "current"
    /\ Len(written) = MaxDocs /\ closes = 1

(***************************************************************************)
(* SpecMerge: entries.merge_ds(args).  args.input is the input paths and,  *)
(* last, the output path.  w and disk are the output writer and its file;  *)
(* cat is src_ds; written is what dst_ds.write() accepted.                 *)
(***************************************************************************)
\* no writer object yet
NoWriter == [Writer_init(0).w EXCEPT !.cls = "none", !.fp = FALSE]

\* what the output path holds when it exists before the call
ExistingFile == <<1, 2, 3>>

\* an input container: a complete file by either writer
InputFiles ==
    {[cls |-> c, docs |-> d] : c \in {"current", "legacy"},
                               d \in {<<>>, <<DocA>>, <<DocB, DocA>>}}

\* every list of at most n input containers
RECURSIVE InputLists(_)
InputLists(n) ==
    IF n = 0 THEN {<<>>}
    ELSE InputLists(n - 1) \cup
         {Append(q, f) : q \in {x \in InputLists(n - 1) : Len(x) = n - 1}, f \in InputFiles}

\* the bytes of an input container
InputFile(inp) ==
    FileOf(IF inp.cls = "current" THEN Writer_init(DEFAULT_WRITE_BUFFER_SIZE)
           ELSE LegacyWriter_init(MIN_HEAD_SIZE), inp.docs, <<>>).disk

\* ds_list = [DocSet(path) for path in args.input[:-1]]
Merge_ds_list(inputs) ==
    [k \in 1..Len(inputs) |->
        LET o == DocSet_r(InputFile(inputs[k]), Parent, DEFAULT_BLOCK_SIZE)
        IN  [r |-> o.r, ofd |-> [h \in Procs |-> IF h = Parent THEN o.off ELSE 0]]]

\* a reader that answers every read with its record 0
Merge_read_first(v, inp, i) == Read_call(v, InputFile(inp), Parent, 0)

\* self.ds_list[ds_idx][sample_idx] on the reader kept as v
Merge_read(v, inp, i) == Read_call(v, InputFile(inp), Parent, i)

InitMerge ==
    /\ \E inputs \in InputLists(MaxInputs) : \E ex \in BOOLEAN :
       \E miss \in {0, 1} :
          /\ miss <= Len(inputs)
          /\ mg = [NoMerge EXCEPT !.inputs = inputs, !.out_exists = ex, !.missing = miss,
                                  !.pc = "start"]
          /\ disk = IF ex THEN ExistingFile ELSE <<>>
    /\ w = NoWriter
    /\ w_op = [op |-> "none", err |-> ""]
    /\ written = <<>>
    /\ assigned = {}
    /\ closes = 0
    /\ rd = [p \in Procs |-> NoReader]
    /\ ofd = [h \in Procs |-> 0]
    /\ fac = NoFac
    /\ forked = FALSE
    /\ cat = NoCat

\* merge_ds up to src_ds = ConcatDocSet(ds_list): the three refusals, or the
\* readers of the inputs and their concatenation
merge_ds_check ==
    /\ mg.pc = "start"
    /\ IF Len(mg.inputs) + 1 < 3
       THEN mg' = [mg EXCEPT !.pc = "done", !.ret = 1] /\ cat' = cat
       ELSE IF mg.out_exists
       THEN mg' = [mg EXCEPT !.pc = "done", !.ret = 2] /\ cat' = cat
       ELSE IF mg.missing # 0
       THEN mg' = [mg EXCEPT !.pc = "done", !.ret = 3] /\ cat' = cat
       ELSE LET ds_list == Merge_ds_list(mg.inputs)
            IN  /\ mg' = [mg EXCEPT !.pc = "open", !.ds_list = ds_list]
                /\ cat' = ConcatDocSet_init([k \in 1..Len(ds_list) |-> ds_list[k].r.index_count])
    /\ UNCHANGED <<w, disk, w_op, written, assigned, closes, rd, ofd, fac, forked>>

\* with DocSet(args.input[-1], 'w') as dst_ds
merge_ds_open ==
    /\ mg.pc = "open"
    /\ SetS(Writer_init(DEFAULT_WRITE_BUFFER_SIZE))
    /\ w_op' = [op |-> "init", err |-> ""]
    /\ mg' = [mg EXCEPT !.pc = "loop", !.i = 0]
    /\ UNCHANGED <<written, assigned, closes, rd, ofd, fac, forked, cat>>

\* one round of for doc in src_ds: src_ds[i], which ends the loop when it
\* raises IndexError, and dst_ds.write(doc)
merge_ds_step ==
    /\ mg.pc = "loop"
    /\ LET c == ConcatDocSet_read(cat, mg.i)
       IN  /\ cat' = c
           /\ IF c.err # ""
              THEN /\ mg' = [mg EXCEPT !.pc = "exit",
                                      !.ret = IF c.err = "IndexError" THEN -1 ELSE -2]
                   /\ UNCHANGED <<w, disk, w_op, written>>
              ELSE LET k  == c.ds_idx + 1
                       v  == Merge_read(mg.ds_list[k], mg.inputs[k], c.sample_idx)
                       wr == Writer_write_call(S, v.r.ret.doc)
                   IN  IF v.r.ret.err # ""
                       THEN /\ mg' = [mg EXCEPT !.pc = "exit", !.ret = -2, !.ds_list[k] = v]
                            /\ UNCHANGED <<w, disk, w_op, written>>
                       ELSE /\ mg' = [mg EXCEPT !.ds_list[k] = v, !.i = mg.i + 1]
                            /\ SetS(wr.s)
                            /\ w_op' = [op |-> "write", err |-> wr.err]
                            /\ written' = Append(written, v.r.ret.doc)
    /\ UNCHANGED <<assigned, closes, rd, ofd, fac, forked>>

\* the end of the with block: dst_ds.__exit__; an exception (ret = -2)
\* leaves merge_ds here
merge_ds_exit ==
    /\ mg.pc = "exit"
    /\ SetS(Writer_close_call(S))
    /\ w_op' = [op |-> "exit", err |-> ""]
    /\ closes' = closes + 1
    /\ mg' = [mg EXCEPT !.pc = IF mg.ret = -2 THEN "done" ELSE "close_inputs"]
    /\ UNCHANGED <<written, assigned, rd, ofd, fac, forked, cat>>

\* for ds in ds_list: ds.close(); return 0
merge_ds_return ==
    /\ mg.pc = "close_inputs"
    /\ mg' = [mg EXCEPT !.pc = "done", !.ret = 0,
                        !.ds_list = [k \in 1..Len(mg.ds_list) |->
                                        [mg.ds_list[k] EXCEPT !.r = Reader_close(mg.ds_list[k].r)]]]
    /\ UNCHANGED <<w, disk, w_op, written, assigned, closes, rd, ofd, fac, forked, cat>>

NextMerge ==
    \/ merge_ds_check
    \/ merge_ds_open
    \/ merge_ds_step
    \/ merge_ds_exit
    \/ merge_ds_return

SpecMerge == InitMerge /\ [][NextMerge]_vars

\* the records of the inputs, in input order
RECURSIVE AllDocs(_)
AllDocs(inputs) ==
    IF inputs = <<>> THEN <<>> ELSE Head(inputs).docs \o AllDocs(Tail(inputs))

Merge_refused == Len(mg.inputs) < 2 \/ mg.out_exists \/ mg.missing # 0

\* C18: merge. With two or more existing, complete inputs and an output path
\* that does not exist, merge_ds reads the concatenation at 0, 1, 2, ... and
\* stops at the first index equal to its length L, having written L records;
\* it returns 0 and leaves a complete container whose count is the sum of
\* the inputs' counts and whose i-th record is the i-th record of the inputs
\* in input order. With an existing output path or fewer than two inputs
\* (or a missing input) it returns without writing anything.
C18_Merge ==
    LET all == AllDocs(mg.inputs)
    IN  /\ mg.pc \in {"loop", "exit", "close_inputs"} =>
              /\ mg.i <= Len(all) /\ Len(written) = mg.i
              /\ written = SubSeq(all, 1, mg.i)
              /\ mg.pc # "loop" => mg.i = Len(all) /\ cat.err = "IndexError" /\ cat.i = Len(all)
        /\ (mg.pc = "done" /\ ~Merge_refused) =>
              /\ mg.ret = 0 /\ mg.i = Len(all) /\ written = all
              /\ ConcatDocSet_len(cat) = Len(all)
              /\ LET o == DocSet_r(disk, Parent, 1)
                 IN  /\ o.err = "" /\ o.r.cls = "current"
                     /\ o.r.index_count = Len(all)
                     /\ \A i \in 0..(Len(all) - 1) : ReadRet(o.r, Parent, i) = Return(all[i + 1])
        /\ (mg.pc = "done" /\ Merge_refused) =>
              /\ mg.ret \in {1, 2, 3}
              /\ w = NoWriter /\ written = <<>>
              /\ disk = (IF mg.out_exists THEN ExistingFile ELSE <<>>)

\* three inputs by both writers, one of them empty, merged into four records
C18_Witness ==
    /\ mg.pc = "done" /\ mg.ret = 0 /\ Len(mg.inputs) = 3
    /\ mg.inputs[1].cls = "legacy" /\ mg.inputs[2].docs = <<>> /\ mg.inputs[3].cls = "current"
    /\ Len(written) = 4 /\ written[2] # written[3]
    /\ DocSet_r(disk, Parent, 1).r.index_count = 4

(***************************************************************************)
(* SpecLegacyOpen: docset_legacy.DocSetReader(path) on files that hold a   *)
(* length prefix, a head document with any of the reserved keys, and       *)
(* padding.                                                                *)
(***************************************************************************)
\* most bytes that follow the head document
MaxPad == 4

\* the elements of seq at the places in keep, in order
RECURSIVE Pick(_, _, _)
Pick(seq, keep, j) ==
    IF j > Len(seq) THEN <<>>
    ELSE (IF j \in keep THEN <<seq[j]>> ELSE <<>>) \o Pick(seq, keep, j + 1)

ReservedElems == <<IntV(K_HDS, MIN_HEAD_SIZE), IntV(K_CNT, 0), IntV(K_IDX, MIN_HEAD_SIZE)>>

\* head documents: any of the reserved keys, user metadata before or after them
HeadDocs ==
    {Pick(ReservedElems, keep, 1) : keep \in SUBSET (1..3)}
    \cup {Pick(ReservedElems, keep, 1) \o <<IntV(<<109>>, 1)>> : keep \in SUBSET (1..3)}
    \cup {<<IntV(<<109>>, 1)>> \o Pick(ReservedElems, keep, 1) \o <<NullV(<<110>>)>> :
              keep \in SUBSET (1..3)}

\* the length prefix written before head data of n bytes in a file of size
\* bytes: the true one, one short, one more than the file holds, more than
\* MAX_HEAD_SIZE, 2^32
Prefixes(n, size) ==
    {UINT64_pack(n), UINT64_pack(n - 1), UINT64_pack(size + 1),
     UINT64_pack(MAX_HEAD_SIZE + 1), <<0, 0, 0, 0, 1, 0, 0, 0>>}

InitLegacyOpen ==
    /\ \E doc \in HeadDocs : \E pad \in {0, MaxPad} :
       \E pre \in Prefixes(Len(encode_doc(doc)), UINT64_size + Len(encode_doc(doc)) + pad) :
          disk = pre \o encode_doc(doc) \o Zeros(pad)
    /\ w = NoWriter
    /\ w_op = [op |-> "none", err |-> ""]
    /\ written = <<>>
    /\ assigned = {}
    /\ closes = 0
    /\ rd = [p \in Procs |-> NoReader]
    /\ ofd = [h \in Procs |-> 0]
    /\ fac = NoFac
    /\ forked = FALSE
    /\ cat = NoCat
    /\ mg = NoMerge

\* docset_legacy.DocSetReader(path, block_size=b)
LegacyOpen(b) ==
    /\ fac.call = "none"
    /\ LET o == LegacyReader_init(disk, b)
       IN  /\ rd' = [rd EXCEPT ![Parent] = o.r]
           /\ fac' = [call |-> "docset_legacy.DocSetReader", err |-> o.err,
                      tried_legacy |-> FALSE, first_err |-> o.err]
    /\ UNCHANGED <<w, disk, w_op, written, assigned, closes, ofd, forked, cat, mg>>

NextLegacyOpen == \E b \in BlockSizes : LegacyOpen(b)

SpecLegacyOpen == InitLegacyOpen /\ [][NextLegacyOpen]_vars

\* the length prefix the file starts with
PrefixOnFile == UINT64_unpack(HRead(disk, 0, UINT64_size))

ReservedKeys == {K_HDS, K_CNT, K_IDX}

\* doc without the elements whose key is reserved
RECURSIVE StripReserved(_)
StripReserved(doc) ==
    IF doc = <<>> THEN <<>>
    ELSE (IF Head(doc).k \in ReservedKeys THEN <<>> ELSE <<Head(doc)>>)
         \o StripReserved(Tail(doc))

\* C19: legacy open validation. When the 8-byte length prefix is more than
\* MAX_HEAD_SIZE or more than the file's size, the legacy reader raises the
\* invalid-format error without reading a byte of the head; when the head
\* decodes and lacks one of the three reserved keys, it raises the
\* corrupted-metadata error; when it opens, its meta_doc is the head document
\* without exactly those three keys.
C19_LegacyOpenValidation ==
    fac.call = "docset_legacy.DocSetReader" =>
        /\ (PrefixOnFile > MAX_HEAD_SIZE \/ PrefixOnFile > Len(disk)) =>
              /\ fac.err = "RuntimeError: Invalid DocSet file."
              /\ LegacyReader_init(disk, 1).head_read = 0
        /\ (PrefixOnFile <= MAX_HEAD_SIZE /\ PrefixOnFile <= Len(disk)) =>
              /\ (HeadOnFile.ok /\ \E k \in ReservedKeys : ~HasKey(HeadOnFile.doc, k)) =>
                    fac.err = "RuntimeError: Corrupted meta document."
              /\ fac.err = "" =>
                    /\ HeadOnFile.ok /\ \A k \in ReservedKeys : HasKey(HeadOnFile.doc, k)
                    /\ rd[Parent].meta_doc = StripReserved(HeadOnFile.doc)
                    /\ Len(rd[Parent].meta_doc) = Len(HeadOnFile.doc) - 3

\* a file whose prefix is one more than its size, refused
C19_Witness ==
    /\ fac.call = "docset_legacy.DocSetReader"
    /\ PrefixOnFile = Len(disk) + 1 /\ Len(disk) > UINT64_size + MaxPad
    /\ fac.err = "RuntimeError: Invalid DocSet file."

\* the bytes of the document stream that holds docs
RECURSIVE RecordBytes(_)
RecordBytes(docs) ==
    IF docs = <<>> THEN <<>>
    ELSE UINT64_pack(Len(encode_doc(Head(docs)))) \o encode_doc(Head(docs))
         \o RecordBytes(Tail(docs))

\* C20: the header rewrite never damages records. The first record starts at
\* offset 32 (current format) or head_size (legacy), which is where the
\* placeholder written at open ends; the header or head written by close()
\* changes bytes below that offset only, whatever the user metadata, and
\* leaves the file's length as it was; the document stream is on the file, as
\* the handle sees it, from that offset on in every state.
C20_HeaderRewriteFrame ==
    /\ [][(w.pc = "header" /\ w' # w) =>
            /\ Len(Logical(w', disk')) = Len(Logical(w, disk))
            /\ \A j \in (StreamStart + 1)..Len(Logical(w, disk)) :
                  Logical(w', disk')[j] = Logical(w, disk)[j]]_vars
    /\ [](/\ Len(w.index) >= 1 => w.index[1] = StreamStart
          /\ (w.fp /\ w.pc = "idle" /\ written = <<>>) => Len(Logical(w, disk)) = StreamStart
          /\ Len(Logical(w, disk)) >= StreamEnd(written, StreamStart)
          /\ SubSeq(Logical(w, disk), StreamStart + 1, StreamEnd(written, StreamStart)) =
                RecordBytes(written)
          /\ w.cls = "legacy" => Len(Logical(w, disk)) >= w.head_size)

\* a closed legacy container with documents whose head holds user metadata,
\* so that the head written by close() differs from the placeholder
C20_Witness ==
    /\ w.cls = "legacy" /\ Closed /\ Len(written) = MaxDocs
    /\ HeadFits /\ w.meta_doc # <<>>
    /\ HRead(disk, w.head_size, Len(RecordBytes(written))) = RecordBytes(written)

=============================================================================
